---- MODULE Spec2Model ----
(***************************************************************************)
(* A model of the RoyalUr-Python rules substrate: royalur/model.py (Tile,  *)
(* Piece, Move) and royalur/dice.py (BinaryDice, BinaryDice0AsMax).        *)
(*                                                                         *)
(* Python values are tagged records, so that a tuple handed to code that   *)
(* expects an integer is a TypeError of the model as it is of the program. *)
(* Every call ends in an outcome: Ok(value) or Raise(exception name).      *)
(* Floats are exact dyadic rationals [num, den]: 0.5 ** n * c is exact in  *)
(* IEEE double precision for every n the model reaches.                    *)
(* Strings the code takes apart (Tile's encoding) are sequences of code    *)
(* points; AsText renders them as text for Move.describe.                  *)
(* The model is of the method bodies; what the module does when it is      *)
(* imported (annotations, enum construction) is not part of it.            *)
(***************************************************************************)
EXTENDS Integers, Sequences, FiniteSets, TLC

VARIABLES input, last, walk, dice, move

vars == <<input, last, walk, dice, move>>

----------------------------------------------------------------------------
(* Bounds of the model *)

\* largest y of the tiles handed to step_towards and to the path walk
MaxY == 2
\* largest y of the tiles that are encoded and decoded
MaxEncY == 110
\* largest number of waypoints handed to create_path
MaxWaypoints == 2
\* largest number of binary die of a dice
MaxNumDie == 4

----------------------------------------------------------------------------
(* Python values and outcomes *)

None == [t |-> "None"]

PyInt(i) == [t |-> "int", i |-> i]

PyTuple(s) == [t |-> "tuple", items |-> s]

Ok(v) == [kind |-> "ok", val |-> v]

Raise(e) == [kind |-> e]

Abs(n) == IF n < 0 THEN -n ELSE n

----------------------------------------------------------------------------
(* Tile *)

MinTileX == 1

MaxTileX == 26

OrdA == 65

Ord0 == 48

OrdMinus == 45

\* Tile.__init__: the comparisons x < 1 and y < 0 raise TypeError on a tuple
Tile_init(px, py) ==
    IF px.t # "int" THEN Raise("TypeError")
    ELSE IF px.i < MinTileX \/ px.i > MaxTileX THEN Raise("ValueError")
    ELSE IF py.t # "int" THEN Raise("TypeError")
    ELSE IF py.i < 0 THEN Raise("ValueError")
    ELSE Ok([t |-> "Tile", x |-> px.i, y |-> py.i,
             ix |-> px.i - 1, iy |-> py.i - 1])

\* Tile.__eq__ on two tiles
Tile_eq(a, b) == a.x = b.x /\ a.y = b.y

\* step_towards with the step along x taken away from the other tile
step_towards_wrong_sign(self, other) ==
    LET dx == other.x - self.x
        dy == other.y - self.y
    IN  IF Abs(dx) + Abs(dy) <= 1 THEN Ok(other)
        ELSE IF Abs(dx) < Abs(dy)
             THEN Tile_init(PyInt(self.x),
                            PyInt(self.y + (IF dy > 0 THEN 1 ELSE -1)))
             ELSE Tile_init(PyInt(self.x + (IF dx < 0 THEN 1 ELSE -1)),
                            PyInt(self.y))

\* step_towards with the tie |dx| = |dy| given to the y-axis (<= for <)
step_towards_tie_y(self, other) ==
    LET dx == other.x - self.x
        dy == other.y - self.y
    IN  IF Abs(dx) + Abs(dy) <= 1 THEN Ok(other)
        ELSE IF Abs(dx) <= Abs(dy)
             THEN Tile_init(PyInt(self.x),
                            PyInt(self.y + (IF dy > 0 THEN 1 ELSE -1)))
             ELSE Tile_init(PyInt(self.x + (IF dx > 0 THEN 1 ELSE -1)),
                            PyInt(self.y))

\* Tile.step_towards
step_towards(self, other) ==
    LET dx == other.x - self.x
        dy == other.y - self.y
    IN  IF Abs(dx) + Abs(dy) <= 1 THEN Ok(other)
        ELSE IF Abs(dx) < Abs(dy)
             THEN Tile_init(PyInt(self.x),
                            PyInt(self.y + (IF dy > 0 THEN 1 ELSE -1)))
             ELSE Tile_init(PyInt(self.x + (IF dx > 0 THEN 1 ELSE -1)),
                            PyInt(self.y))

\* str(n) of an integer, as code points
RECURSIVE DigitsOf(_)
DigitsOf(n) ==
    IF n < 10 THEN <<Ord0 + n>>
    ELSE Append(DigitsOf(n \div 10), Ord0 + (n % 10))

IntToStr(n) == IF n < 0 THEN <<OrdMinus>> \o DigitsOf(-n) ELSE DigitsOf(n)

IsDigit(c) == c >= Ord0 /\ c <= Ord0 + 9

\* the value of a non-empty run of decimal digits
RECURSIVE DigitsValue(_)
DigitsValue(s) ==
    IF Len(s) = 0 THEN 0
    ELSE 10 * DigitsValue(SubSeq(s, 1, Len(s) - 1)) + (s[Len(s)] - Ord0)

\* int(s) of a string: an optional sign and decimal digits, else ValueError
StrToInt(s) ==
    LET signed == Len(s) > 0 /\ s[1] = OrdMinus
        body   == IF signed THEN Tail(s) ELSE s
    IN  IF Len(body) = 0 \/ \E k \in 1..Len(body) : ~IsDigit(body[k])
        THEN Raise("ValueError")
        ELSE Ok(IF signed THEN -DigitsValue(body) ELSE DigitsValue(body))

\* Tile.__repr__ (and __str__)
Tile_repr(self) == <<self.x + (OrdA - 1)>> \o IntToStr(self.y)

\* from_string reading a single digit of y (encoded[1] for encoded[1:])
from_string_one_digit(encoded) ==
    IF Len(encoded) < 2 THEN Raise("ValueError")
    ELSE LET x == encoded[1] - (OrdA - 1)
             y == StrToInt(<<encoded[2]>>)
         IN  IF y.kind # "ok" THEN y
             ELSE Tile_init(PyInt(x), PyInt(y.val))

\* Tile.from_string
from_string(encoded) ==
    IF Len(encoded) < 2 THEN Raise("ValueError")
    ELSE LET x == encoded[1] - (OrdA - 1)
             y == StrToInt(Tail(encoded))
         IN  IF y.kind # "ok" THEN y
             ELSE Tile_init(PyInt(x), PyInt(y.val))

\* Tile.create_list: each element of coordinates is unpacked into x, y
RECURSIVE create_list(_)
create_list(coordinates) ==
    IF Len(coordinates) = 0 THEN Ok(<<>>)
    ELSE LET c == Head(coordinates)
         IN  IF c.t # "tuple" THEN Raise("TypeError")
             ELSE IF Len(c.items) # 2 THEN Raise("ValueError")
             ELSE LET tile == Tile_init(c.items[1], c.items[2])
                  IN  IF tile.kind # "ok" THEN tile
                      ELSE LET rest == create_list(Tail(coordinates))
                           IN  IF rest.kind # "ok" THEN rest
                               ELSE Ok(<<tile.val>> \o rest.val)

\* the while loop of create_path: walk current to next, appending each step
RECURSIVE WalkTo(_, _, _)
WalkTo(current, next, path) ==
    IF Tile_eq(current, next) THEN Ok(path)
    ELSE LET step == step_towards(current, next)
         IN  IF step.kind # "ok" THEN step
             ELSE WalkTo(step.val, next, Append(path, step.val))

\* the for loop of create_path over the waypoints from index on
RECURSIVE PathFrom(_, _, _)
PathFrom(waypoints, index, path) ==
    IF index > Len(waypoints) THEN Ok(path)
    ELSE LET leg == WalkTo(waypoints[index - 1], waypoints[index], path)
         IN  IF leg.kind # "ok" THEN leg
             ELSE PathFrom(waypoints, index + 1, leg.val)

\* Tile.create_path(*coordinates): the tuple of all the arguments is handed
\* to create_list(*coordinates) as its single argument
create_path(coordinates) ==
    LET waypoints == create_list(<<PyTuple(coordinates)>>)
    IN  IF waypoints.kind # "ok" THEN waypoints
        ELSE IF Len(waypoints.val) = 0 THEN Raise("ValueError")
        ELSE PathFrom(waypoints.val, 2, <<waypoints.val[1]>>)

----------------------------------------------------------------------------
(* Inputs of the tile operations *)

TileOf(x, y) == Tile_init(PyInt(x), PyInt(y)).val

\* the valid tiles with y up to maxY
ValidTiles(maxY) == {TileOf(x, y) : x \in MinTileX..MaxTileX, y \in 0..maxY}

Waypoint(x, y) == PyTuple(<<PyInt(x), PyInt(y)>>)

WaypointValues == {Waypoint(x, y) : x \in {1, 2}, y \in {1, 4}}

SeqsUpTo(S, n) == UNION {[1..k -> S] : k \in 0..n}

\* create_path(w1, w2, ...), create_path([w1, w2, ...]) and create_path(i, j)
PathArguments ==
    SeqsUpTo(WaypointValues, MaxWaypoints)
    \cup {<<PyTuple(s)>> : s \in SeqsUpTo(WaypointValues, MaxWaypoints)}
    \cup {<<PyInt(i), PyInt(j)>> : i \in {0, 1, 26}, j \in {-1, 4}}

\* texts that no tile encodes to
MalformedTexts ==
    {<<>>, <<OrdA>>, <<OrdA, OrdA>>, <<OrdA, OrdMinus, Ord0 + 1>>,
     <<OrdA - 1, Ord0 + 1>>, <<OrdA + 26, Ord0 + 1>>, <<Ord0 + 1, Ord0 + 1>>,
     <<OrdA, Ord0, Ord0 + 7>>}

----------------------------------------------------------------------------
(* The tile operations as actions.  input holds the arguments the caller   *)
(* has at hand, last the most recent call and its outcome, walk the local  *)
(* variables of the path loop.                                             *)

Idle == [active |-> FALSE]

TileInputs ==
    {[kind |-> "pair", self |-> a, other |-> b] :
        a \in ValidTiles(MaxY), b \in ValidTiles(MaxY)}
    \cup {[kind |-> "tile", self |-> tile] : tile \in ValidTiles(MaxEncY)}
    \cup {[kind |-> "text", encoded |-> s] : s \in MalformedTexts}
    \cup {[kind |-> "args", args |-> args] : args \in PathArguments}

\* input.self.step_towards(input.other)
StepTowards ==
    /\ input.kind = "pair"
    /\ last' = [op |-> "step_towards", self |-> input.self,
                other |-> input.other,
                out |-> step_towards(input.self, input.other)]
    /\ walk' = Idle
    /\ UNCHANGED <<input, dice, move>>

\* current = waypoints[index - 1]; next = waypoints[index]
WalkBegin ==
    /\ input.kind = "pair"
    /\ walk' = [active |-> TRUE, start |-> input.self,
                current |-> input.self, next |-> input.other, steps |-> 0]
    /\ last' = [op |-> "walk_begin"]
    /\ UNCHANGED <<input, dice, move>>

\* one turn of: while current != next: current = current.step_towards(next)
WalkStep ==
    /\ walk.active
    /\ ~Tile_eq(walk.current, walk.next)
    /\ LET step == step_towards(walk.current, walk.next)
       IN  /\ last' = [op |-> "step_towards", self |-> walk.current,
                       other |-> walk.next, out |-> step]
           /\ walk' = IF step.kind = "ok"
                      THEN [walk EXCEPT !.current = step.val,
                                        !.steps = walk.steps + 1]
                      ELSE Idle
    /\ UNCHANGED <<input, dice, move>>

\* Tile.create_path(*input.args)
CreatePath ==
    /\ input.kind = "args"
    /\ last' = [op |-> "create_path", args |-> input.args,
                out |-> create_path(input.args)]
    /\ UNCHANGED <<input, walk, dice, move>>

\* str(input.self)
Repr ==
    /\ input.kind = "tile"
    /\ last' = [op |-> "repr", self |-> input.self,
                out |-> Ok(Tile_repr(input.self))]
    /\ UNCHANGED <<input, walk, dice, move>>

\* Tile.from_string(s), of the text just encoded or of the text at hand
FromString ==
    /\ \/ input.kind = "text"
       \/ input.kind = "tile" /\ last.op = "repr"
    /\ LET s == IF input.kind = "text" THEN input.encoded ELSE last.out.val
       IN  last' = [op |-> "from_string", encoded |-> s,
                    out |-> from_string(s)]
    /\ UNCHANGED <<input, walk, dice, move>>

InitTile ==
    /\ input \in TileInputs
    /\ last = [op |-> "none"]
    /\ walk = Idle
    /\ dice = None
    /\ move = None

NextTile ==
    \/ StepTowards
    \/ WalkBegin
    \/ WalkStep
    \/ CreatePath
    \/ Repr
    \/ FromString

SpecTile == InitTile /\ [][NextTile]_vars

----------------------------------------------------------------------------
(* Properties of the tile operations *)

Dist(a, b) == Abs(b.x - a.x) + Abs(b.y - a.y)

IsValidTile(v) ==
    /\ v.t = "Tile"
    /\ v.x >= MinTileX /\ v.x <= MaxTileX
    /\ v.y >= 0

Sign(n) == IF n > 0 THEN 1 ELSE -1

IsValidWaypoint(w) ==
    /\ w.t = "tuple"
    /\ Len(w.items) = 2
    /\ w.items[1].t = "int" /\ w.items[2].t = "int"
    /\ w.items[1].i >= MinTileX /\ w.items[1].i <= MaxTileX
    /\ w.items[2].i >= 0

WaypointTile(w) == TileOf(w.items[1].i, w.items[2].i)

\* path is continuous and visits the tiles of the waypoints in their order
IsPathThrough(path, waypoints) ==
    /\ Len(path) >= 1
    /\ \A k \in 1..(Len(path) - 1) : Dist(path[k], path[k + 1]) = 1
    /\ \E at \in [1..Len(waypoints) -> 1..Len(path)] :
          /\ at[1] = 1
          /\ at[Len(waypoints)] = Len(path)
          /\ \A k \in 1..(Len(waypoints) - 1) : at[k] <= at[k + 1]
          /\ \A k \in 1..Len(waypoints) :
                Tile_eq(path[at[k]], WaypointTile(waypoints[k]))

\* C1: for every non-empty list of valid waypoints create_path returns a
\* path that starts at the first waypoint, ends at the last, contains every
\* waypoint in order and moves one unit on one axis between consecutive
\* tiles; create_path((1,1),(1,4)) returns [A1, A2, A3, A4].
C1_CreatePathContinuous ==
    (/\ last.op = "create_path"
     /\ Len(last.args) >= 1
     /\ \A k \in 1..Len(last.args) : IsValidWaypoint(last.args[k]))
    => /\ last.out.kind = "ok"
       /\ IsPathThrough(last.out.val, last.args)
       /\ last.args = <<Waypoint(1, 1), Waypoint(1, 4)>>
          => last.out.val = <<TileOf(1, 1), TileOf(1, 2),
                              TileOf(1, 3), TileOf(1, 4)>>

IsTie(a, b) ==
    /\ Dist(a, b) > 1
    /\ Abs(b.x - a.x) = Abs(b.y - a.y)

\* C2 as stated: on a perfect diagonal (|dx| = |dy|, |dx| + |dy| > 1)
\* step_towards keeps x and moves y one unit toward the other tile.
C2_TieTowardsY ==
    (last.op = "step_towards" /\ IsTie(last.self, last.other))
    => last.out = Ok(TileOf(last.self.x,
                            last.self.y + Sign(last.other.y - last.self.y)))

\* C2, amended: on a perfect diagonal (|dx| = |dy|, |dx| + |dy| > 1)
\* step_towards keeps y and moves x one unit toward the other tile.
C2_TieTowardsX ==
    (last.op = "step_towards" /\ IsTie(last.self, last.other))
    => last.out = Ok(TileOf(last.self.x + Sign(last.other.x - last.self.x),
                            last.self.y))

C2_Witness ==
    /\ last.op = "step_towards"
    /\ IsTie(last.self, last.other)
    /\ last.other.y < last.self.y
    /\ last.out.kind = "ok"

\* C7: decoding the text encoding of a valid tile yields that tile, also
\* for y = 0 and for a y of several digits; Tile(1,1) encodes to "A1" and
\* "A1" decodes to Tile(1,1).
C7_RoundTrip ==
    /\ (last.op = "from_string" /\ input.kind = "tile")
       => /\ last.encoded = Tile_repr(input.self)
          /\ last.out = Ok(input.self)
    /\ (last.op = "repr" /\ Tile_eq(last.self, TileOf(1, 1)))
       => last.out = Ok(<<OrdA, Ord0 + 1>>)
    /\ (last.op = "from_string" /\ last.encoded = <<OrdA, Ord0 + 1>>)
       => last.out = Ok(TileOf(1, 1))

C7_Witness ==
    /\ last.op = "from_string"
    /\ input.kind = "tile"
    /\ input.self.x = MaxTileX
    /\ input.self.y >= 100
    /\ last.out.kind = "ok"

\* C10: step_towards returns the other tile when |dx| + |dy| <= 1, and
\* otherwise a valid tile one unit from this one and one unit closer to the
\* other; so the walk of create_path's inner loop has taken exactly
\* |dx| + |dy| steps when it reaches the other tile.
C10_StepApproaches ==
    /\ last.op = "step_towards"
       => IF Dist(last.self, last.other) <= 1
          THEN last.out = Ok(last.other)
          ELSE /\ last.out.kind = "ok"
               /\ IsValidTile(last.out.val)
               /\ Dist(last.self, last.out.val) = 1
               /\ Dist(last.out.val, last.other)
                    = Dist(last.self, last.other) - 1
    /\ walk.active
       => /\ IsValidTile(walk.current)
          /\ walk.steps + Dist(walk.current, walk.next)
               = Dist(walk.start, walk.next)

C10_Witness ==
    /\ walk.active
    /\ Tile_eq(walk.current, walk.next)
    /\ walk.steps = Dist(walk.start, walk.next)
    /\ walk.start.x = MaxTileX /\ walk.next.x = MinTileX
    /\ walk.start.y = 0 /\ walk.next.y # 0

----------------------------------------------------------------------------
(* Dice *)

RECURSIVE Pow2(_)
Pow2(n) == IF n = 0 THEN 1 ELSE 2 * Pow2(n - 1)

\* the float num / den, den a power of two, in lowest terms
RECURSIVE Float(_, _)
Float(num, den) ==
    IF num = 0 THEN [t |-> "float", num |-> 0, den |-> 1]
    ELSE IF den > 1 /\ num % 2 = 0 THEN Float(num \div 2, den \div 2)
    ELSE [t |-> "float", num |-> num, den |-> den]

\* float * int
FloatTimesInt(f, n) == Float(f.num * n, f.den)

\* Roll.__init__
Roll_init(value) == [t |-> "Roll", value |-> value]

\* the loop of BinaryDice.__init__ with the division taken before the
\* product: nChooseK * ((num_die - roll) // (roll + 1))
RECURSIVE BinomialLoop_divide_first(_, _, _, _, _)
BinomialLoop_divide_first(num_die, baseProb, roll, nChooseK, probabilities) ==
    IF roll > num_die THEN probabilities
    ELSE BinomialLoop_divide_first(
             num_die, baseProb, roll + 1,
             nChooseK * ((num_die - roll) \div (roll + 1)),
             Append(probabilities, FloatTimesInt(baseProb, nChooseK)))

\* the loop of BinaryDice.__init__: for roll in range(0, num_die + 1)
RECURSIVE BinomialLoop(_, _, _, _, _)
BinomialLoop(num_die, baseProb, roll, nChooseK, probabilities) ==
    IF roll > num_die THEN probabilities
    ELSE BinomialLoop(
             num_die, baseProb, roll + 1,
             (nChooseK * (num_die - roll)) \div (roll + 1),
             Append(probabilities, FloatTimesInt(baseProb, nChooseK)))

\* BinaryDice.__init__ (num_die >= 0): the slots of the new object
BinaryDice_init(name, num_die) ==
    [cls |-> "BinaryDice",
     slots |-> [_name |-> name,
                _num_die |-> num_die,
                _roll_probabilities |->
                    BinomialLoop(num_die, Float(1, Pow2(num_die)), 0, 1, <<>>)]]

\* BinaryDice0AsMax.__init__
BinaryDice0AsMax_init(name, num_die) ==
    LET super == BinaryDice_init(name, num_die)
        probabilities == super.slots._roll_probabilities
    IN  [cls |-> "BinaryDice0AsMax",
         slots |-> [_name |-> name,
                    _num_die |-> num_die,
                    _max_roll_value |-> num_die + 1,
                    _roll_probabilities |->
                        <<PyInt(0)>> \o Tail(probabilities)
                                     \o <<probabilities[1]>>]]

\* self.<attr>: a slot that was set, or one of the properties name and
\* num_die; any other name is an AttributeError
GetAttr(self, attr) ==
    IF attr \in DOMAIN self.slots THEN Ok(self.slots[attr])
    ELSE IF attr = "name" THEN Ok(self.slots["_name"])
    ELSE IF attr = "num_die" THEN Ok(self.slots["_num_die"])
    ELSE Raise("AttributeError")

\* BinaryDice.get_max_roll_value
BinaryDice_get_max_roll_value(self) == GetAttr(self, "_num_die")

\* BinaryDice0AsMax.get_max_roll_value
BinaryDice0AsMax_get_max_roll_value(self) == GetAttr(self, "max_roll_value")

get_max_roll_value(self) ==
    IF self.cls = "BinaryDice0AsMax"
    THEN BinaryDice0AsMax_get_max_roll_value(self)
    ELSE BinaryDice_get_max_roll_value(self)

\* BinaryDice.get_roll_probabilities
get_roll_probabilities(self) == GetAttr(self, "_roll_probabilities")

\* BinaryDice.roll_value: flips[k] is random.random() >= 0.5 of die k
BinaryDice_roll_value(self, flips) ==
    Ok(Cardinality({k \in 1..self.slots._num_die : flips[k]}))

\* BinaryDice0AsMax.roll_value
BinaryDice0AsMax_roll_value(self, flips) ==
    LET value == BinaryDice_roll_value(self, flips)
    IN  IF value.val = 0 THEN GetAttr(self, "max_roll_value") ELSE value

roll_value(self, flips) ==
    IF self.cls = "BinaryDice0AsMax"
    THEN BinaryDice0AsMax_roll_value(self, flips)
    ELSE BinaryDice_roll_value(self, flips)

\* BinaryDice.generate_roll
BinaryDice_generate_roll(self, value) ==
    IF value < 0 \/ value > self.slots._num_die THEN Raise("ValueError")
    ELSE Ok(Roll_init(value))

\* BinaryDice0AsMax.generate_roll: value <= 0 is decided before the
\* attribute is read
BinaryDice0AsMax_generate_roll(self, value) ==
    IF value <= 0 THEN Raise("ValueError")
    ELSE LET max == GetAttr(self, "max_roll_value")
         IN  IF max.kind # "ok" THEN max
             ELSE IF value > max.val THEN Raise("ValueError")
             ELSE Ok(Roll_init(value))

generate_roll(self, value) ==
    IF self.cls = "BinaryDice0AsMax"
    THEN BinaryDice0AsMax_generate_roll(self, value)
    ELSE BinaryDice_generate_roll(self, value)

\* Dice.roll
roll(self, flips) ==
    LET value == roll_value(self, flips)
    IN  IF value.kind # "ok" THEN value ELSE generate_roll(self, value.val)

----------------------------------------------------------------------------
(* The dice operations as actions.  input holds the class and the number   *)
(* of die to construct and the value handed to generate_roll; dice is the  *)
(* constructed object.                                                     *)

DiceInputs ==
    {[kind |-> "dice", cls |-> c, num_die |-> n, value |-> v] :
        c \in {"BinaryDice", "BinaryDice0AsMax"},
        n \in 0..MaxNumDie,
        v \in -1..(MaxNumDie + 2)}

\* BinaryDice("X", n) or BinaryDice0AsMax("X", n)
NewDice ==
    /\ input.kind = "dice"
    /\ dice' = IF input.cls = "BinaryDice0AsMax"
               THEN BinaryDice0AsMax_init("X", input.num_die)
               ELSE BinaryDice_init("X", input.num_die)
    /\ last' = [op |-> "new_dice"]
    /\ UNCHANGED <<input, walk, move>>

GetMaxRollValue ==
    /\ dice # None
    /\ last' = [op |-> "get_max_roll_value", out |-> get_max_roll_value(dice)]
    /\ UNCHANGED <<input, walk, dice, move>>

GetRollProbabilities ==
    /\ dice # None
    /\ last' = [op |-> "get_roll_probabilities",
                out |-> get_roll_probabilities(dice)]
    /\ UNCHANGED <<input, walk, dice, move>>

RollValue ==
    /\ dice # None
    /\ \E flips \in [1..dice.slots._num_die -> BOOLEAN] :
          last' = [op |-> "roll_value", out |-> roll_value(dice, flips)]
    /\ UNCHANGED <<input, walk, dice, move>>

GenerateRoll ==
    /\ dice # None
    /\ last' = [op |-> "generate_roll", value |-> input.value,
                out |-> generate_roll(dice, input.value)]
    /\ UNCHANGED <<input, walk, dice, move>>

Roll ==
    /\ dice # None
    /\ \E flips \in [1..dice.slots._num_die -> BOOLEAN] :
          last' = [op |-> "roll", out |-> roll(dice, flips)]
    /\ UNCHANGED <<input, walk, dice, move>>

InitDice ==
    /\ input \in DiceInputs
    /\ last = [op |-> "none"]
    /\ walk = Idle
    /\ dice = None
    /\ move = None

NextDice ==
    \/ NewDice
    \/ GetMaxRollValue
    \/ GetRollProbabilities
    \/ RollValue
    \/ GenerateRoll
    \/ Roll

SpecDice == InitDice /\ [][NextDice]_vars

----------------------------------------------------------------------------
(* Properties of the dice operations *)

\* the binomial coefficient, by Pascal's rule
RECURSIVE Choose(_, _)
Choose(n, k) ==
    IF k < 0 \/ k > n THEN 0
    ELSE IF k = 0 \/ k = n THEN 1
    ELSE Choose(n - 1, k - 1) + Choose(n - 1, k)

\* the number v (an int or a float) equals num / den
NumEq(v, num, den) ==
    IF v.t = "int" THEN v.i * den = num ELSE v.num * den = num * v.den

\* the sum of the floats of a sequence, as a count of units 1 / den
RECURSIVE SumUnits(_, _)
SumUnits(probabilities, den) ==
    IF Len(probabilities) = 0 THEN 0
    ELSE Head(probabilities).num * (den \div Head(probabilities).den)
         + SumUnits(Tail(probabilities), den)

\* the values roll_value can produce
Achievable(self, value) ==
    IF self.cls = "BinaryDice0AsMax"
    THEN value >= 1 /\ value <= self.slots._num_die + 1
    ELSE value >= 0 /\ value <= self.slots._num_die

\* C4: on either dice kind generate_roll(v) returns a Roll of value v when
\* v is achievable and fails with an invalid-argument error otherwise, and
\* roll() never fails.
C4_GenerateRollAchievable ==
    /\ last.op = "generate_roll"
       => IF Achievable(dice, last.value)
          THEN last.out = Ok(Roll_init(last.value))
          ELSE last.out.kind = "ValueError"
    /\ last.op = "roll" => last.out.kind = "ok"

\* C5: for BinaryDice0AsMax with n dice get_max_roll_value() is n + 1 and
\* get_roll_probabilities() has n + 2 entries: 0, then the entries 1..n of
\* the n-dice BinaryDice, then its entry 0; for n = 3 the maximum is 4 and
\* the vector is [0, 0.375, 0.375, 0.125, 0.125].
C5_ZeroAsMaxVector ==
    (dice # None /\ dice.cls = "BinaryDice0AsMax")
    => LET n == dice.slots._num_die
           parent == BinaryDice_init("X", n).slots._roll_probabilities
       IN  /\ last.op = "get_max_roll_value" => last.out = Ok(n + 1)
           /\ last.op = "get_roll_probabilities"
              => /\ last.out.kind = "ok"
                 /\ Len(last.out.val) = n + 2
                 /\ NumEq(last.out.val[1], 0, 1)
                 /\ \A k \in 1..n : last.out.val[k + 1] = parent[k + 1]
                 /\ last.out.val[n + 2] = parent[1]
                 /\ n = 3 => /\ NumEq(last.out.val[2], 375, 1000)
                             /\ NumEq(last.out.val[3], 375, 1000)
                             /\ NumEq(last.out.val[4], 125, 1000)
                             /\ NumEq(last.out.val[5], 125, 1000)

\* C6: for BinaryDice with n >= 0 dice get_roll_probabilities() has n + 1
\* entries, entry k is C(n, k) * 0.5^n, and the entries sum to 1; for n = 4
\* the vector is [0.0625, 0.25, 0.375, 0.25, 0.0625].
C6_Binomial ==
    (dice # None /\ dice.cls = "BinaryDice"
     /\ last.op = "get_roll_probabilities")
    => LET n == dice.slots._num_die
           probabilities == last.out.val
       IN  /\ last.out.kind = "ok"
           /\ Len(probabilities) = n + 1
           /\ \A k \in 0..n :
                 /\ probabilities[k + 1].t = "float"
                 /\ NumEq(probabilities[k + 1], Choose(n, k), Pow2(n))
           /\ SumUnits(probabilities, Pow2(n)) = Pow2(n)
           /\ n = 4 => /\ NumEq(probabilities[1], 625, 10000)
                       /\ NumEq(probabilities[2], 25, 100)
                       /\ NumEq(probabilities[3], 375, 1000)
                       /\ NumEq(probabilities[4], 25, 100)
                       /\ NumEq(probabilities[5], 625, 10000)

C6_Witness ==
    /\ dice # None
    /\ dice.cls = "BinaryDice"
    /\ dice.slots._num_die = 4
    /\ last.op = "get_roll_probabilities"
    /\ Len(last.out.val) = 5

----------------------------------------------------------------------------
(* Piece and Move *)

\* Piece.__init__
Piece_init(owner, path_index) ==
    IF path_index < 0 THEN Raise("ValueError")
    ELSE Ok([t |-> "Piece", owner |-> owner, path_index |-> path_index])

\* Move.__init__ without the check of captured_piece against dest
Move_init_no_capture(player, source, source_piece, dest, dest_piece, captured_piece) ==
    IF (source = None) # (source_piece = None) THEN Raise("ValueError")
    ELSE IF (dest = None) # (dest_piece = None) THEN Raise("ValueError")
    ELSE Ok([t |-> "Move", player |-> player,
             source |-> source, source_piece |-> source_piece,
             dest |-> dest, dest_piece |-> dest_piece,
             captured_piece |-> captured_piece])

\* Move.__init__
Move_init(player, source, source_piece, dest, dest_piece, captured_piece) ==
    IF (source = None) # (source_piece = None) THEN Raise("ValueError")
    ELSE IF (dest = None) # (dest_piece = None) THEN Raise("ValueError")
    ELSE IF dest = None /\ captured_piece # None THEN Raise("ValueError")
    ELSE Ok([t |-> "Move", player |-> player,
             source |-> source, source_piece |-> source_piece,
             dest |-> dest, dest_piece |-> dest_piece,
             captured_piece |-> captured_piece])

\* Move.is_introducing_piece
is_introducing_piece(self) == self.source = None

\* Move.is_scoring_piece
is_scoring_piece(self) == self.dest = None

\* Move.is_capture
is_capture(self) == self.captured_piece # None

\* Move.get_source
get_source(self) ==
    IF self.source = None THEN Raise("RuntimeError") ELSE Ok(self.source)

\* Move.get_dest
get_dest(self) ==
    IF self.dest = None THEN Raise("RuntimeError") ELSE Ok(self.dest)

\* Move.apply: the body is pass, the call returns None
apply(self) == Ok(None)

Letters ==
    <<"A", "B", "C", "D", "E", "F", "G", "H", "I", "J", "K", "L", "M",
      "N", "O", "P", "Q", "R", "S", "T", "U", "V", "W", "X", "Y", "Z">>

Digits == <<"0", "1", "2", "3", "4", "5", "6", "7", "8", "9">>

\* chr(c) of the code points a tile's encoding is made of
Chr(c) ==
    IF c = OrdMinus THEN "-"
    ELSE IF IsDigit(c) THEN Digits[c - Ord0 + 1]
    ELSE Letters[c - OrdA + 1]

\* a sequence of code points as text
RECURSIVE AsText(_)
AsText(codes) ==
    IF Len(codes) = 0 THEN "" ELSE Chr(Head(codes)) \o AsText(Tail(codes))

\* f"{tile}"
Tile_str(tile) == AsText(Tile_repr(tile))

\* Move.describe testing the destination piece for the capture
describe_capture_by_dest(self) ==
    LET scoring == is_scoring_piece(self)
        introducing == is_introducing_piece(self)
        source == get_source(self)
        dest == get_dest(self)
    IN  IF scoring /\ introducing THEN Ok("Introduce and score a piece.")
        ELSE IF scoring
        THEN IF source.kind # "ok" THEN source
             ELSE Ok("Score a piece from " \o Tile_str(source.val) \o ".")
        ELSE IF ~introducing /\ source.kind # "ok" THEN source
        ELSE IF dest.kind # "ok" THEN dest
        ELSE Ok((IF introducing THEN "Introduce a piece to "
                 ELSE "Move " \o Tile_str(source.val) \o " to ")
                \o (IF self.dest_piece # None THEN "capture " ELSE "")
                \o Tile_str(dest.val) \o ".")

\* Move.describe
describe(self) ==
    LET scoring == is_scoring_piece(self)
        introducing == is_introducing_piece(self)
        source == get_source(self)
        dest == get_dest(self)
    IN  IF scoring /\ introducing THEN Ok("Introduce and score a piece.")
        ELSE IF scoring
        THEN IF source.kind # "ok" THEN source
             ELSE Ok("Score a piece from " \o Tile_str(source.val) \o ".")
        ELSE IF ~introducing /\ source.kind # "ok" THEN source
        ELSE IF dest.kind # "ok" THEN dest
        ELSE Ok((IF introducing THEN "Introduce a piece to "
                 ELSE "Move " \o Tile_str(source.val) \o " to ")
                \o (IF is_capture(self) THEN "capture " ELSE "")
                \o Tile_str(dest.val) \o ".")

----------------------------------------------------------------------------
(* The move operations as actions.  input holds the arguments of the       *)
(* constructor; move is the Move most recently constructed.                *)

SomeTiles == {TileOf(1, 1), TileOf(26, 10)}

SomePieces == {Piece_init("LIGHT", 0).val, Piece_init("DARK", 3).val}

MoveInputs ==
    {[kind |-> "move", player |-> p, source |-> s, source_piece |-> sp,
      dest |-> d, dest_piece |-> dp, captured_piece |-> cp] :
        p \in {"LIGHT", "DARK"},
        s \in SomeTiles \cup {None}, sp \in SomePieces \cup {None},
        d \in SomeTiles \cup {None}, dp \in SomePieces \cup {None},
        cp \in SomePieces \cup {None}}

\* Move(player, source, source_piece, dest, dest_piece, captured_piece)
NewMove ==
    /\ input.kind = "move"
    /\ LET out == Move_init(input.player, input.source, input.source_piece,
                            input.dest, input.dest_piece,
                            input.captured_piece)
       IN  /\ last' = [op |-> "new_move", out |-> out]
           /\ move' = IF out.kind = "ok" THEN out.val ELSE move
    /\ UNCHANGED <<input, walk, dice>>

Apply ==
    /\ move # None
    /\ last' = [op |-> "apply", out |-> apply(move)]
    /\ UNCHANGED <<input, walk, dice, move>>

Describe ==
    /\ move # None
    /\ last' = [op |-> "describe", out |-> describe(move)]
    /\ UNCHANGED <<input, walk, dice, move>>

InitMove ==
    /\ input \in MoveInputs
    /\ last = [op |-> "none"]
    /\ walk = Idle
    /\ dice = None
    /\ move = None

NextMove ==
    \/ NewMove
    \/ Apply
    \/ Describe

SpecMove == InitMove /\ [][NextMove]_vars

----------------------------------------------------------------------------
(* Properties of the move operations *)

\* the three invariants of a Move, of a record with its six fields
MoveInvariants(m) ==
    /\ (m.source # None) <=> (m.source_piece # None)
    /\ (m.dest # None) <=> (m.dest_piece # None)
    /\ (m.captured_piece # None) => (m.dest # None)

\* C3: Move construction succeeds exactly when the three invariants hold
\* and fails with an invalid-argument error otherwise, so every Move that
\* exists satisfies them; a source without source_piece and a
\* captured_piece without dest are rejected.
C3_MoveInvariants ==
    /\ last.op = "new_move"
       => /\ (last.out.kind = "ok") <=> MoveInvariants(input)
          /\ ~MoveInvariants(input) => last.out.kind = "ValueError"
          /\ (input.source # None /\ input.source_piece = None)
             => last.out.kind = "ValueError"
          /\ (input.dest = None /\ input.captured_piece # None)
             => last.out.kind = "ValueError"
    /\ move # None => MoveInvariants(move)

C3_Witness ==
    /\ last.op = "new_move"
    /\ last.out.kind = "ok"
    /\ move = last.out.val
    /\ move.source = None
    /\ move.captured_piece # None

\* C8: apply() on a Move ends in an explicit unsupported-operation error
\* and never returns normally with no effect.
C8_ApplyUnsupported ==
    last.op = "apply" => last.out.kind = "NotImplementedError"

\* the sentence of the case split of C9
Sentence(m) ==
    IF m.source = None /\ m.dest = None THEN "Introduce and score a piece."
    ELSE IF m.dest = None
    THEN "Score a piece from " \o Tile_str(m.source) \o "."
    ELSE (IF m.source = None THEN "Introduce a piece to "
          ELSE "Move " \o Tile_str(m.source) \o " to ")
         \o (IF m.captured_piece # None THEN "capture " ELSE "")
         \o Tile_str(m.dest) \o "."

\* C9: describe() of a validly constructed Move raises no state error and
\* returns "Introduce and score a piece.", "Score a piece from {source}.",
\* or "Introduce a piece to " / "Move {source} to " followed by "capture "
\* exactly when a piece is captured and by "{dest}.".
C9_Describe ==
    last.op = "describe"
    => /\ last.out = Ok(Sentence(move))
       /\ (move.source = None /\ move.dest = None)
          => last.out.val = "Introduce and score a piece."
       /\ (move.source = TileOf(1, 1)
           /\ move.dest = TileOf(26, 10)
           /\ move.captured_piece # None)
          => last.out.val = "Move A1 to capture Z10."

C9_Witness ==
    /\ last.op = "describe"
    /\ move.source # None
    /\ move.dest # None
    /\ move.captured_piece = None
    /\ last.out.kind = "ok"

====
